---- MODULE Spec2Model ----
(***************************************************************************)
(* Model of the fingerprint featurizers of src/featurizers/fingerprints.py *)
(* (MorganFingerprint, MACCSKeysFingerprint, AtomPairFingerprint,          *)
(* TopologicalTorsionFingerprint, ERGFingerprint, E3FP).                   *)
(*                                                                         *)
(* An instance is a record of attributes (self).  A constructor either     *)
(* raises or returns the attribute record; _calculate_fingerprint maps a   *)
(* sequence of molecules to an outcome: the returned sequence of           *)
(* fingerprints, or the error that was raised.  The external toolkit       *)
(* functions are uninterpreted: a fingerprint is the record of the call    *)
(* that produced it (function, molecule, keyword arguments).  The base     *)
(* class FingerprintTransformer is imported from a module that is not part *)
(* of the listing; its transform is modelled from the specification.       *)
(***************************************************************************)
EXTENDS Integers, Sequences, FiniteSets, TLC

\* ------------------------------------------------------------------------
\* Bounds of the model
\* ------------------------------------------------------------------------
MaxLen == 2
MaxJobs == 2

\* ------------------------------------------------------------------------
\* Molecules: opaque objects owned by the caller.  "bad" is a malformed
\* molecule, on which the external computation raises.
\* ------------------------------------------------------------------------
Mols == {"m1", "m2", "bad"}

Malformed(x) == x = "bad"

\* number of distinct low-energy conformers the generator can find
DistinctConformers(x) == IF x = "m1" THEN 1 ELSE 3

\* maximum the generator chooses by itself when num_conf = -1
AutoNumConf(x) == IF x = "m1" THEN 2 ELSE 3

Inputs == UNION {[1..n -> Mols] : n \in 0..MaxLen}

Min(a, b) == IF a <= b THEN a ELSE b

RECURSIVE IsPowerOfTwo(_)
IsPowerOfTwo(n) ==
    IF n = 1 THEN TRUE
    ELSE IF n < 1 \/ n % 2 # 0 THEN FALSE
    ELSE IsPowerOfTwo(n \div 2)

\* ------------------------------------------------------------------------
\* Outcomes of a call: a returned value or a raised error
\* ------------------------------------------------------------------------
NoError == [type |-> "none", by |-> "none"]

Returned(v) == [status |-> "returned", value |-> v, error |-> NoError]

Raised(t, f) ==
    [status |-> "raised", value |-> <<>>, error |-> [type |-> t, by |-> f]]

NoOutcome == [status |-> "none", value |-> <<>>, error |-> NoError]

\* the error the external toolkit raises on a malformed molecule
ExternalError(f) == Raised("ExternalError", f)

\* ------------------------------------------------------------------------
\* Constructors
\* ------------------------------------------------------------------------
ResultTypes == {"default", "as_bit_vect", "hashed"}

\* FingerprintTransformer.__init__(n_jobs, verbose)
Base_init(n_jobs, verbose) == [n_jobs |-> n_jobs, verbose |-> verbose]

\* outcome of a constructor: the instance, or the error and no instance
Constructed(attrs) ==
    [status |-> "constructed", error |-> "none", self |-> attrs,
     base_ran |-> TRUE]

ConstructionFailed(err) ==
    [status |-> "raised", error |-> err, self |-> <<>>, base_ran |-> FALSE]

\* mutant: the check of result_type forgets "hashed"
MorganFingerprint_init_m_list(a) ==
    IF a.result_type \notin {"default", "as_bit_vect"}
    THEN ConstructionFailed("AssertionError")
    ELSE Constructed(Base_init(a.n_jobs, a.verbose) @@
                     [radius |-> a.radius, n_bits |-> a.n_bits,
                      use_chirality |-> a.use_chirality,
                      use_bond_types |-> a.use_bond_types,
                      use_features |-> a.use_features,
                      result_type |-> a.result_type])

\* mutant: the entry point is bound in __init__ and kept on the instance
MorganFingerprint_init_m_bind(a) ==
    IF a.result_type \notin ResultTypes
    THEN ConstructionFailed("AssertionError")
    ELSE Constructed(Base_init(a.n_jobs, a.verbose) @@
                     [radius |-> a.radius, n_bits |-> a.n_bits,
                      use_chirality |-> a.use_chirality,
                      use_bond_types |-> a.use_bond_types,
                      use_features |-> a.use_features,
                      result_type |-> a.result_type,
                      fp_function |-> "GetMorganFingerprint"])

MorganFingerprint_init(a) ==
    IF a.result_type \notin ResultTypes
    THEN ConstructionFailed("AssertionError")
    ELSE Constructed(Base_init(a.n_jobs, a.verbose) @@
                     [radius |-> a.radius, n_bits |-> a.n_bits,
                      use_chirality |-> a.use_chirality,
                      use_bond_types |-> a.use_bond_types,
                      use_features |-> a.use_features,
                      result_type |-> a.result_type])

MACCSKeysFingerprint_init(a) ==
    Constructed(Base_init(a.n_jobs, a.verbose))

AtomPairFingerprint_init(a) ==
    IF a.result_type \notin ResultTypes
    THEN ConstructionFailed("AssertionError")
    ELSE Constructed(Base_init(a.n_jobs, a.verbose) @@
                     [n_bits |-> a.n_bits, min_length |-> a.min_length,
                      max_length |-> a.max_length,
                      from_atoms |-> a.from_atoms,
                      ignore_atoms |-> a.ignore_atoms,
                      atom_invariants |-> a.atom_invariants,
                      n_bits_per_entry |-> a.n_bits_per_entry,
                      include_chirality |-> a.include_chirality,
                      use_2D |-> a.use_2D,
                      result_type |-> a.result_type])

TopologicalTorsionFingerprint_init(a) ==
    IF a.result_type \notin ResultTypes
    THEN ConstructionFailed("AssertionError")
    ELSE Constructed(Base_init(a.n_jobs, a.verbose) @@
                     [n_bits |-> a.n_bits, target_size |-> a.target_size,
                      from_atoms |-> a.from_atoms,
                      ignore_atoms |-> a.ignore_atoms,
                      atom_invariants |-> a.atom_invariants,
                      include_chirality |-> a.include_chirality,
                      result_type |-> a.result_type])

ERGFingerprint_init(a) ==
    Constructed(Base_init(a.n_jobs, a.verbose) @@
                [atom_types |-> a.atom_types,
                 fuzz_increment |-> a.fuzz_increment,
                 min_path |-> a.min_path, max_path |-> a.max_path])

E3FP_init(a) ==
    Constructed(Base_init(a.n_jobs, a.verbose) @@
                [bits |-> a.bits, radius_multiplier |-> a.radius_multiplier,
                 rdkit_invariants |-> a.rdkit_invariants, first |-> a.first,
                 num_conf |-> a.num_conf,
                 pool_multiplier |-> a.pool_multiplier,
                 rmsd_cutoff |-> a.rmsd_cutoff,
                 max_energy_diff |-> a.max_energy_diff,
                 force_field |-> a.force_field, get_values |-> a.get_values,
                 is_folded |-> a.is_folded, fold_bits |-> a.fold_bits,
                 standardise |-> a.standardise,
                 random_state |-> a.random_state])

Classes ==
    {"MorganFingerprint", "MACCSKeysFingerprint", "AtomPairFingerprint",
     "TopologicalTorsionFingerprint", "ERGFingerprint", "E3FP"}

HasResultType(c) ==
    c \in {"MorganFingerprint", "AtomPairFingerprint",
           "TopologicalTorsionFingerprint"}

New(c, a) ==
    CASE c = "MorganFingerprint" -> MorganFingerprint_init(a)
      [] c = "MACCSKeysFingerprint" -> MACCSKeysFingerprint_init(a)
      [] c = "AtomPairFingerprint" -> AtomPairFingerprint_init(a)
      [] c = "TopologicalTorsionFingerprint" ->
             TopologicalTorsionFingerprint_init(a)
      [] c = "ERGFingerprint" -> ERGFingerprint_init(a)
      [] c = "E3FP" -> E3FP_init(a)

\* ------------------------------------------------------------------------
\* External toolkit calls (rdkit.Chem.rdMolDescriptors, rdReducedGraphs).
\* A fingerprint is the record of the call that computed it.
\* ------------------------------------------------------------------------
CallExternal(f, x, kwargs) ==
    IF Malformed(x) THEN ExternalError(f)
    ELSE Returned([fn |-> f, mol |-> x, args |-> kwargs])

Minimum(S) == CHOOSE i \in S : \A j \in S : i <= j

Reverse(s) == [i \in 1..Len(s) |-> s[Len(s) + 1 - i]]

\* mutant: the elements are collected in reverse order
ListComprehension_m_rev(f, X, kwargs) ==
    LET calls == [i \in 1..Len(X) |-> CallExternal(f, X[i], kwargs)]
        failed == {i \in 1..Len(X) : calls[i].status = "raised"}
    IN  IF failed # {} THEN calls[Minimum(failed)]
        ELSE Returned(Reverse([i \in 1..Len(X) |-> calls[i].value]))

\* mutant: a molecule on which the call raises is caught and skipped
ListComprehension_m_skip(f, X, kwargs) ==
    LET calls == [i \in 1..Len(X) |-> CallExternal(f, X[i], kwargs)]
        kept == SelectSeq([i \in 1..Len(X) |-> calls[i]],
                          LAMBDA c : c.status = "returned")
    IN  Returned([i \in 1..Len(kept) |-> kept[i].value])

\* np.array([f(x, **kwargs) for x in X]): the calls are made in the order of
\* X; the first one that raises ends the comprehension with its error;
\* otherwise the array holds one element per call, in the order of X.
ListComprehension(f, X, kwargs) ==
    LET calls == [i \in 1..Len(X) |-> CallExternal(f, X[i], kwargs)]
        failed == {i \in 1..Len(X) : calls[i].status = "raised"}
    IN  IF failed # {} THEN calls[Minimum(failed)]
        ELSE Returned([i \in 1..Len(X) |-> calls[i].value])

\* ------------------------------------------------------------------------
\* _calculate_fingerprint of the two-dimensional featurizers
\* ------------------------------------------------------------------------

\* mutant: the bit-vector variant forwards no width (the toolkit's default
\* width is used) 
MorganFingerprint_calculate_fingerprint_m_nbits(self, X) ==
    IF self.result_type = "default"
    THEN ListComprehension("GetMorganFingerprint", X,
             [radius |-> self.radius, useChirality |-> self.use_chirality,
              useBondTypes |-> self.use_bond_types,
              useFeatures |-> self.use_features])
    ELSE IF self.result_type = "as_bit_vect"
    THEN ListComprehension("GetMorganFingerprintAsBitVect", X,
             [radius |-> self.radius, useChirality |-> self.use_chirality,
              useBondTypes |-> self.use_bond_types,
              useFeatures |-> self.use_features])
    ELSE ListComprehension("GetHashedMorganFingerprint", X,
             [radius |-> self.radius, useChirality |-> self.use_chirality,
              useBondTypes |-> self.use_bond_types,
              useFeatures |-> self.use_features, nBits |-> self.n_bits])

MorganFingerprint_calculate_fingerprint(self, X) ==
    IF self.result_type = "default"
    THEN ListComprehension("GetMorganFingerprint", X,
             [radius |-> self.radius, useChirality |-> self.use_chirality,
              useBondTypes |-> self.use_bond_types,
              useFeatures |-> self.use_features])
    ELSE IF self.result_type = "as_bit_vect"
    THEN ListComprehension("GetMorganFingerprintAsBitVect", X,
             [radius |-> self.radius, useChirality |-> self.use_chirality,
              useBondTypes |-> self.use_bond_types,
              useFeatures |-> self.use_features, nBits |-> self.n_bits])
    ELSE ListComprehension("GetHashedMorganFingerprint", X,
             [radius |-> self.radius, useChirality |-> self.use_chirality,
              useBondTypes |-> self.use_bond_types,
              useFeatures |-> self.use_features, nBits |-> self.n_bits])

MACCSKeysFingerprint_calculate_fingerprint(self, X) ==
    ListComprehension("GetMACCSKeysFingerprint", X, <<>>)

\* the dictionary fp_args and the function fp_function of AtomPairFingerprint
AtomPair_shared_args(self) ==
    [minLength |-> self.min_length, maxLength |-> self.max_length,
     fromAtoms |-> self.from_atoms, ignoreAtoms |-> self.ignore_atoms,
     atomInvariants |-> self.atom_invariants,
     includeChirality |-> self.include_chirality, use2D |-> self.use_2D]

\* mutant: the width is forwarded in every variant
AtomPair_dispatch_m_default(self) ==
    IF self.result_type = "default"
    THEN [fp_function |-> "GetAtomPairFingerprint",
          fp_args |-> AtomPair_shared_args(self) @@
                      [nBits |-> self.n_bits]]
    ELSE IF self.result_type = "as_bit_vect"
    THEN [fp_function |-> "GetHashedAtomPairFingerprintAsBitVect",
          fp_args |-> AtomPair_shared_args(self) @@
                      [nBits |-> self.n_bits,
                       nBitsPerEntry |-> self.n_bits_per_entry]]
    ELSE [fp_function |-> "GetHashedAtomPairFingerprint",
          fp_args |-> AtomPair_shared_args(self) @@
                      [nBits |-> self.n_bits]]

AtomPair_dispatch(self) ==
    IF self.result_type = "default"
    THEN [fp_function |-> "GetAtomPairFingerprint",
          fp_args |-> AtomPair_shared_args(self)]
    ELSE IF self.result_type = "as_bit_vect"
    THEN [fp_function |-> "GetHashedAtomPairFingerprintAsBitVect",
          fp_args |-> AtomPair_shared_args(self) @@
                      [nBits |-> self.n_bits,
                       nBitsPerEntry |-> self.n_bits_per_entry]]
    ELSE [fp_function |-> "GetHashedAtomPairFingerprint",
          fp_args |-> AtomPair_shared_args(self) @@
                      [nBits |-> self.n_bits]]

AtomPairFingerprint_calculate_fingerprint(self, X) ==
    LET d == AtomPair_dispatch(self)
    IN  ListComprehension(d.fp_function, X, d.fp_args)

TopologicalTorsion_shared_args(self) ==
    [targetSize |-> self.target_size, fromAtoms |-> self.from_atoms,
     ignoreAtoms |-> self.ignore_atoms,
     atomInvariants |-> self.atom_invariants,
     includeChirality |-> self.include_chirality]

TopologicalTorsion_dispatch(self) ==
    IF self.result_type = "default"
    THEN [fp_function |-> "GetTopologicalTorsionFingerprint",
          fp_args |-> TopologicalTorsion_shared_args(self)]
    ELSE IF self.result_type = "as_bit_vect"
    THEN [fp_function |-> "GetHashedTopologicalTorsionFingerprintAsBitVect",
          fp_args |-> TopologicalTorsion_shared_args(self) @@
                      [nBits |-> self.n_bits]]
    ELSE [fp_function |-> "GetHashedTopologicalTorsionFingerprint",
          fp_args |-> TopologicalTorsion_shared_args(self) @@
                      [nBits |-> self.n_bits]]

TopologicalTorsionFingerprint_calculate_fingerprint(self, X) ==
    LET d == TopologicalTorsion_dispatch(self)
    IN  ListComprehension(d.fp_function, X, d.fp_args)

ERGFingerprint_calculate_fingerprint(self, X) ==
    ListComprehension("GetErGFingerprint", X,
        [atomTypes |-> self.atom_types,
         fuzzIncrement |-> self.fuzz_increment,
         minPath |-> self.min_path, maxPath |-> self.max_path])

\* ------------------------------------------------------------------------
\* E3FP: the external conformer generator and fingerprinter (e3fp)
\* ------------------------------------------------------------------------

\* energy of the j-th lowest-energy conformer of x
EnergyOf(x, j) == (IF x = "m1" THEN 100 ELSE 200) + j

\* ConformerGenerator(first=, num_conf=, ..., get_values=, seed=)
ConformerGenerator(self) ==
    [first |-> self.first, num_conf |-> self.num_conf,
     pool_multiplier |-> self.pool_multiplier,
     rmsd_cutoff |-> self.rmsd_cutoff,
     max_energy_diff |-> self.max_energy_diff,
     forcefield |-> self.force_field, get_values |-> self.get_values,
     seed |-> self.random_state]

\* conf_gen.generate_conformers(input_mol): at most max_conformers
\* conformers are accepted (num_conf, or a number the generator derives from
\* the molecule when num_conf = -1), at most `first` of them when first is
\* positive, lowest energy first; the values are returned with the molecule
\* only when get_values is set.
generate_conformers(conf_gen, x) ==
    LET max_conformers == IF conf_gen.num_conf = -1 THEN AutoNumConf(x)
                          ELSE conf_gen.num_conf
        limit == IF conf_gen.first > 0
                 THEN Min(max_conformers, conf_gen.first)
                 ELSE max_conformers
        k == Min(DistinctConformers(x), limit)
    IN  [mol |-> [name |-> x, conformers |-> k],
         has_values |-> conf_gen.get_values,
         max_conformers |-> max_conformers,
         energies |-> [j \in 1..k |-> EnergyOf(x, j)]]

\* fprints_from_mol(mol, fprint_params): one fingerprint per conformer
fprints_from_mol(mol, fprint_params) ==
    [j \in 1..mol.conformers |->
        [mol |-> mol.name, conformer |-> j, bits |-> fprint_params.bits,
         params |-> fprint_params, props |-> <<>>]]

\* Fingerprint.set_prop(key, value)
set_prop(fp, key, val) ==
    [fp EXCEPT !.props = [n \in DOMAIN fp.props \cup {key} |->
                            IF n = key THEN val ELSE fp.props[n]]]

\* Fingerprint.fold(bits) raises unless the width is a power-of-two fraction
\* of the present width; the folded fingerprint keeps the properties
FoldRaises(fp, bits) ==
    \/ bits > fp.bits
    \/ fp.bits % bits # 0
    \/ ~IsPowerOfTwo(fp.bits \div bits)

fold(fp, bits) == [fp EXCEPT !.bits = bits]

\* mutant: every fingerprint of a molecule is tagged with energies[0]
E3FP_tag_and_fold_m_energy(self, fps, energies) ==
    LET tagged == [i \in 1..Len(fps) |->
                      set_prop(fps[i], "Energy", energies[1])]
    IN  IF self.is_folded /\ \E i \in 1..Len(fps) :
                                 FoldRaises(tagged[i], self.fold_bits)
        THEN ExternalError("fold")
        ELSE Returned([i \in 1..Len(fps) |->
                          IF self.is_folded
                          THEN fold(tagged[i], self.fold_bits)
                          ELSE tagged[i]])

\* mutant: only the first fingerprint of a molecule is folded
E3FP_tag_and_fold_m_first(self, fps, energies) ==
    LET tagged == [i \in 1..Len(fps) |->
                      set_prop(fps[i], "Energy", energies[i])]
    IN  IF self.is_folded /\ \E i \in 1..Len(fps) :
                                 FoldRaises(tagged[i], self.fold_bits)
        THEN ExternalError("fold")
        ELSE Returned([i \in 1..Len(fps) |->
                          IF self.is_folded /\ i = 1
                          THEN fold(tagged[i], self.fold_bits)
                          ELSE tagged[i]])

\* for i in range(len(fps)): set_prop("Energy", energies[i]); fold
E3FP_tag_and_fold(self, fps, energies) ==
    LET tagged == [i \in 1..Len(fps) |->
                      set_prop(fps[i], "Energy", energies[i])]
    IN  IF self.is_folded /\ \E i \in 1..Len(fps) :
                                 FoldRaises(tagged[i], self.fold_bits)
        THEN ExternalError("fold")
        ELSE Returned([i \in 1..Len(fps) |->
                          IF self.is_folded
                          THEN fold(tagged[i], self.fold_bits)
                          ELSE tagged[i]])

\* one iteration of the loop over X
E3FP_molecule(self, conf_gen, x) ==
    IF Malformed(x) THEN ExternalError("MolToSmiles")
    ELSE LET generated == generate_conformers(conf_gen, x)
         IN  IF ~generated.has_values
             THEN Raised("TypeError", "unpack")
             ELSE E3FP_tag_and_fold(self,
                      fprints_from_mol(generated.mol,
                          [bits |-> self.bits,
                           radius_multiplier |-> self.radius_multiplier,
                           rdkit_invariants |-> self.rdkit_invariants]),
                      generated.energies)

RECURSIVE Extend(_, _)
\* result.extend(fps) for the molecules n, n+1, ... of the batch
Extend(perMol, n) ==
    IF n > Len(perMol) THEN <<>>
    ELSE perMol[n].value \o Extend(perMol, n + 1)

\* mutant: result = fps instead of result.extend(fps)
E3FP_calculate_fingerprint_m_assign(self, X) ==
    LET conf_gen == ConformerGenerator(self)
        perMol == [i \in 1..Len(X) |-> E3FP_molecule(self, conf_gen, X[i])]
        failed == {i \in 1..Len(X) : perMol[i].status = "raised"}
    IN  IF failed # {} THEN perMol[Minimum(failed)]
        ELSE Returned(IF Len(X) = 0 THEN <<>> ELSE perMol[Len(X)].value)

E3FP_calculate_fingerprint(self, X) ==
    LET conf_gen == ConformerGenerator(self)
        perMol == [i \in 1..Len(X) |-> E3FP_molecule(self, conf_gen, X[i])]
        failed == {i \in 1..Len(X) : perMol[i].status = "raised"}
    IN  IF failed # {} THEN perMol[Minimum(failed)]
        ELSE Returned(Extend(perMol, 1))

\* self._calculate_fingerprint(X), by the class of the instance
calculate_fingerprint(c, self, X) ==
    CASE c = "MorganFingerprint" ->
             MorganFingerprint_calculate_fingerprint(self, X)
      [] c = "MACCSKeysFingerprint" ->
             MACCSKeysFingerprint_calculate_fingerprint(self, X)
      [] c = "AtomPairFingerprint" ->
             AtomPairFingerprint_calculate_fingerprint(self, X)
      [] c = "TopologicalTorsionFingerprint" ->
             TopologicalTorsionFingerprint_calculate_fingerprint(self, X)
      [] c = "ERGFingerprint" ->
             ERGFingerprint_calculate_fingerprint(self, X)
      [] c = "E3FP" -> E3FP_calculate_fingerprint(self, X)

\* mutant: folding narrows the instance itself (self.bits = self.fold_bits)
attributes_after_calculate_m_store(c, self, X) ==
    IF c = "E3FP" /\ self.is_folded /\ Len(X) > 0
    THEN [self EXCEPT !.bits = self.fold_bits]
    ELSE self

\* the attributes of the instance after _calculate_fingerprint: no method
\* body assigns to an attribute of self (fp_args, fp_function, conf_gen,
\* result and fps are locals)
attributes_after_calculate(c, self, X) == self

\* the external entry points a call imports in its body
imports(c, self) ==
    CASE c = "MorganFingerprint" ->
             IF self.result_type = "default" THEN {"GetMorganFingerprint"}
             ELSE IF self.result_type = "as_bit_vect"
             THEN {"GetMorganFingerprintAsBitVect"}
             ELSE {"GetHashedMorganFingerprint"}
      [] c = "MACCSKeysFingerprint" -> {"GetMACCSKeysFingerprint"}
      [] c = "AtomPairFingerprint" -> {AtomPair_dispatch(self).fp_function}
      [] c = "TopologicalTorsionFingerprint" ->
             {TopologicalTorsion_dispatch(self).fp_function}
      [] c = "ERGFingerprint" -> {"GetErGFingerprint"}
      [] c = "E3FP" ->
             {"mol_from_smiles", "ConformerGenerator", "fprints_from_mol"}

\* ------------------------------------------------------------------------
\* Constructor arguments the model draws from
\* ------------------------------------------------------------------------
NUM_CONF_DEF == -1

ResultTypeArgs == ResultTypes \cup {"bogus"}

Jobs == 1..MaxJobs

MorganArgs ==
    [radius : {2, 3}, n_bits : {1024, 2048}, use_chirality : {FALSE},
     use_bond_types : {TRUE}, use_features : {FALSE}, sparse : {FALSE},
     result_type : ResultTypeArgs, n_jobs : Jobs, verbose : {0}]

MACCSArgs == [sparse : {FALSE}, n_jobs : Jobs, verbose : {0}]

AtomPairArgs ==
    [n_bits : {1024, 2048}, min_length : {1}, max_length : {30},
     from_atoms : {0}, ignore_atoms : {0}, atom_invariants : {0},
     n_bits_per_entry : {4, 8}, include_chirality : {FALSE},
     use_2D : {TRUE}, sparse : {FALSE}, result_type : ResultTypeArgs,
     n_jobs : Jobs, verbose : {0}]

TopologicalTorsionArgs ==
    [n_bits : {1024, 2048}, target_size : {4}, from_atoms : {0},
     ignore_atoms : {0}, atom_invariants : {0}, include_chirality : {FALSE},
     sparse : {FALSE}, result_type : ResultTypeArgs, n_jobs : Jobs,
     verbose : {0}]

\* fuzz_increment, radius_multiplier: floats, kept as their literals
ERGArgs ==
    [atom_types : {0}, fuzz_increment : {"0.3"}, min_path : {1},
     max_path : {15}, sparse : {FALSE}, n_jobs : Jobs, verbose : {0}]

E3FPArgs ==
    [bits : {1024, 4096}, radius_multiplier : {"1.5"},
     rdkit_invariants : {TRUE}, first : {1, 2},
     num_conf : {NUM_CONF_DEF, 1, 2},
     pool_multiplier : {"POOL_MULTIPLIER_DEF"},
     rmsd_cutoff : {"RMSD_CUTOFF_DEF"},
     max_energy_diff : {"MAX_ENERGY_DIFF_DEF"},
     force_field : {"FORCEFIELD_DEF"}, get_values : BOOLEAN,
     is_folded : BOOLEAN, fold_bits : {1024, 2048}, standardise : {TRUE},
     random_state : {0}, n_jobs : Jobs, verbose : {0}]

Args(c) ==
    CASE c = "MorganFingerprint" -> MorganArgs
      [] c = "MACCSKeysFingerprint" -> MACCSArgs
      [] c = "AtomPairFingerprint" -> AtomPairArgs
      [] c = "TopologicalTorsionFingerprint" -> TopologicalTorsionArgs
      [] c = "ERGFingerprint" -> ERGArgs
      [] c = "E3FP" -> E3FPArgs

\* ------------------------------------------------------------------------
\* FingerprintTransformer.transform: the input is cut into at most n_jobs
\* contiguous partitions, _calculate_fingerprint runs on each partition in
\* a worker, and the results are concatenated in the order of the input.
\* ------------------------------------------------------------------------
Partitions(Xin, n) ==
    LET len == Len(Xin)
        cutSets == {S \in SUBSET (1..(len - 1)) : Cardinality(S) <= n - 1}
        bounds(S) == S \cup {len}
        start(S, e) == IF \E b \in S : b < e
                       THEN 1 + CHOOSE b \in S :
                                b < e /\ \A b2 \in S : b2 < e => b2 <= b
                       ELSE 1
        ends(S) == [k \in 1..Cardinality(bounds(S)) |->
                      CHOOSE e \in bounds(S) :
                          Cardinality({b \in bounds(S) : b <= e}) = k]
    IN  {[k \in 1..Cardinality(bounds(S)) |->
             SubSeq(Xin, start(S, ends(S)[k]), ends(S)[k])] : S \in cutSets}

RECURSIVE Concatenate(_, _)
Concatenate(rs, n) ==
    IF n > Len(rs) THEN <<>> ELSE rs[n].value \o Concatenate(rs, n + 1)

\* ------------------------------------------------------------------------
\* State
\* ------------------------------------------------------------------------
VARIABLES
    cls,        \* class of the featurizer last constructed
    given,      \* the arguments its constructor was called with
    obj,        \* outcome of the constructor; obj.self is the instance
    X,          \* input of the call in progress or last made
    out,        \* outcome of the last call
    op,         \* "none", "calculate" or "transform": the last call
    resolved,   \* entry points imported by the last _calculate_fingerprint
    phase,      \* "idle", or "running" while workers hold partitions
    parts,      \* the partitions of the last parallel transform
    results     \* outcome per partition, NoOutcome while pending

vars == <<cls, given, obj, X, out, op, resolved, phase, parts, results>>

NoObject ==
    [status |-> "none", error |-> "none", self |-> <<>>, base_ran |-> FALSE]

Init ==
    /\ cls = "none"
    /\ given = <<>>
    /\ obj = NoObject
    /\ X = <<>>
    /\ out = NoOutcome
    /\ op = "none"
    /\ resolved = {}
    /\ phase = "idle"
    /\ parts = <<>>
    /\ results = <<>>

\* cls(**a): the program constructs its featurizer, again if the
\* construction failed
Construct(c, a) ==
    /\ phase = "idle"
    /\ obj.status # "constructed"
    /\ cls' = c
    /\ given' = a
    /\ obj' = New(c, a)
    /\ X' = <<>>
    /\ out' = NoOutcome
    /\ op' = "none"
    /\ resolved' = {}
    /\ UNCHANGED <<phase, parts, results>>

\* a direct call self._calculate_fingerprint(Xin)
Calculate(Xin) ==
    /\ phase = "idle"
    /\ op = "none"
    /\ obj.status = "constructed"
    /\ X' = Xin
    /\ out' = calculate_fingerprint(cls, obj.self, Xin)
    /\ obj' = [obj EXCEPT
                 !.self = attributes_after_calculate(cls, obj.self, Xin)]
    /\ op' = "calculate"
    /\ resolved' = imports(cls, obj.self)
    /\ parts' = <<>>
    /\ UNCHANGED <<cls, given, phase, results>>

\* transform(Xin) with n_jobs = 1, and the rejection of an empty input
TransformSequential(Xin) ==
    /\ phase = "idle"
    /\ op = "none"
    /\ obj.status = "constructed"
    /\ obj.self.n_jobs = 1 \/ Len(Xin) = 0
    /\ X' = Xin
    /\ out' = IF Len(Xin) = 0 THEN Raised("ValueError", "transform")
              ELSE calculate_fingerprint(cls, obj.self, Xin)
    /\ obj' = IF Len(Xin) = 0 THEN obj
              ELSE [obj EXCEPT
                 !.self = attributes_after_calculate(cls, obj.self, Xin)]
    /\ op' = "transform"
    /\ resolved' = IF Len(Xin) = 0 THEN {} ELSE imports(cls, obj.self)
    /\ parts' = <<>>
    /\ UNCHANGED <<cls, given, phase, results>>

\* transform(Xin) with n_jobs > 1: the partitions are handed out
TransformParallel(Xin) ==
    /\ phase = "idle"
    /\ op = "none"
    /\ obj.status = "constructed"
    /\ obj.self.n_jobs > 1
    /\ Len(Xin) > 0
    /\ X' = Xin
    /\ \E p \in Partitions(Xin, obj.self.n_jobs) :
          /\ parts' = p
          /\ results' = [k \in 1..Len(p) |-> NoOutcome]
    /\ out' = NoOutcome
    /\ op' = "transform"
    /\ resolved' = {}
    /\ phase' = "running"
    /\ UNCHANGED <<cls, given, obj>>

\* the worker holding partition k finishes; it works on its own copy of
\* the instance
WorkerFinish(k) ==
    /\ phase = "running"
    /\ k \in 1..Len(parts)
    /\ results[k].status = "none"
    /\ results' = [results EXCEPT
                     ![k] = calculate_fingerprint(cls, obj.self, parts[k])]
    /\ resolved' = imports(cls, obj.self)
    /\ UNCHANGED <<cls, given, obj, X, out, op, phase, parts>>

\* all workers are done: the first error in input order is raised, or the
\* results are concatenated
Join ==
    /\ phase = "running"
    /\ \A k \in 1..Len(parts) : results[k].status # "none"
    /\ LET failed == {k \in 1..Len(parts) : results[k].status = "raised"}
       IN  out' = IF failed # {} THEN results[Minimum(failed)]
                  ELSE Returned(Concatenate(results, 1))
    /\ phase' = "idle"
    /\ results' = <<>>
    /\ UNCHANGED <<cls, given, obj, X, op, resolved, parts>>

\* the call has returned or raised: the caller drops its input and outcome,
\* and keeps the instance for the next call
Release ==
    /\ phase = "idle"
    /\ op # "none"
    /\ X' = <<>>
    /\ out' = NoOutcome
    /\ op' = "none"
    /\ resolved' = {}
    /\ parts' = <<>>
    /\ UNCHANGED <<cls, given, obj, phase, results>>

Next ==
    \/ \E c \in Classes : \E a \in Args(c) : Construct(c, a)
    \/ \E Xin \in Inputs : Calculate(Xin)
    \/ \E Xin \in Inputs : TransformSequential(Xin)
    \/ \E Xin \in Inputs : TransformParallel(Xin)
    \/ \E k \in 1..MaxLen : WorkerFinish(k)
    \/ Join
    \/ Release

Spec == Init /\ [][Next]_vars

\* ------------------------------------------------------------------------
\* Properties
\* ------------------------------------------------------------------------
Finished == phase = "idle" /\ op # "none"

ReturnedCall == Finished /\ out.status = "returned"

Positions(fp) ==
    IF "nBits" \in DOMAIN fp.args THEN fp.args.nBits ELSE 2048

\* C1: a featurizer with a result_type option is constructed for "default",
\* "as_bit_vect" and "hashed"; for any other value the constructor raises
\* before the base initialiser has run, with no attribute stored and no
\* molecule processed.
C1_ResultTypeValidated ==
    (HasResultType(cls) /\ obj.status # "none") =>
        IF given.result_type \in {"default", "as_bit_vect", "hashed"}
        THEN /\ obj.status = "constructed"
             /\ obj.base_ran
             /\ obj.self.result_type = given.result_type
        ELSE /\ obj.status = "raised"
             /\ obj.error = "AssertionError"
             /\ ~obj.base_ran
             /\ DOMAIN obj.self = {}
             /\ op = "none"
             /\ out = NoOutcome

C1_Witness ==
    /\ HasResultType(cls)
    /\ given.result_type = "bogus"
    /\ obj.status = "raised"

\* C2: for every featurizer but E3FP the output has one fingerprint per
\* input molecule, and the fingerprint at index i is that of the molecule at
\* index i.
C2_OneVectorPerMoleculeInOrder ==
    (cls # "E3FP" /\ ReturnedCall) =>
        /\ Len(out.value) = Len(X)
        /\ \A i \in 1..Len(X) :
              /\ out.value[i].mol = X[i]
              /\ out.value[i] =
                   calculate_fingerprint(cls, obj.self, <<X[i]>>).value[1]

C2_Witness ==
    /\ cls \notin {"E3FP", "none"}
    /\ ReturnedCall
    /\ Len(X) >= 2
    /\ X[1] # X[2]

CountFor(x) == Cardinality({j \in 1..Len(out.value) : out.value[j].mol = x})

Occurrences(x) == Cardinality({i \in 1..Len(X) : X[i] = x})

\* what x yields when it is the only molecule of the batch
Alone(x) == E3FP_calculate_fingerprint(obj.self, <<x>>).value

InInput(x) == \E i \in 1..Len(X) : X[i] = x

EnergyTagged ==
    \A j \in 1..Len(out.value) :
        /\ "Energy" \in DOMAIN out.value[j].props
        /\ out.value[j].props.Energy =
              EnergyOf(out.value[j].mol, out.value[j].conformer)

Independent ==
    \A x \in Mols : CountFor(x) = Occurrences(x) * Len(Alone(x))

C5_FoldedWidth ==
    (cls = "E3FP" /\ ReturnedCall) =>
        \A j \in 1..Len(out.value) :
            out.value[j].bits = IF obj.self.is_folded
                                THEN obj.self.fold_bits
                                ELSE obj.self.bits

C5_Witness ==
    /\ cls = "E3FP"
    /\ ReturnedCall
    /\ obj.self.is_folded
    /\ obj.self.fold_bits # obj.self.bits
    /\ Len(out.value) >= 2

\* C6: whatever calls have been made, returning or raising, every attribute
\* of the instance has the value the constructor was given, and the outcome
\* of a call is the one the constructor's arguments determine.
C6_ConfigurationNeverMutated ==
    obj.status = "constructed" =>
        /\ \A n \in DOMAIN obj.self : obj.self[n] = given[n]
        /\ obj.self = New(cls, given).self
        /\ (Finished /\ op = "calculate") =>
              out = calculate_fingerprint(cls, New(cls, given).self, X)

C6_Witness ==
    /\ cls = "E3FP"
    /\ Finished
    /\ op = "calculate"
    /\ obj.self.is_folded
    /\ obj.self.fold_bits # obj.self.bits
    /\ Len(X) > 0
    /\ out.status = "raised"

\* C7: a MorganFingerprint with result_type "as_bit_vect" and n_bits B
\* forwards B as nBits to the bit-vector function for every molecule, so
\* every output vector has B positions.
C7_MorganBitVectWidth ==
    (cls = "MorganFingerprint" /\ ReturnedCall
        /\ given.result_type = "as_bit_vect") =>
        \A i \in 1..Len(out.value) :
            /\ out.value[i].fn = "GetMorganFingerprintAsBitVect"
            /\ "nBits" \in DOMAIN out.value[i].args
            /\ Positions(out.value[i]) = given.n_bits

C7_Witness ==
    /\ cls = "MorganFingerprint"
    /\ ReturnedCall
    /\ given.result_type = "as_bit_vect"
    /\ given.n_bits = 1024
    /\ Len(out.value) >= 2

\* C8: when the external computation raises on a molecule (the molecules
\* before it having been processed), _calculate_fingerprint raises that
\* error and returns no partial result.
C8_ExternalErrorPropagates ==
    (Finished /\ op = "calculate") =>
        \A i \in 1..Len(X) :
            ( /\ Malformed(X[i])
              /\ calculate_fingerprint(cls, obj.self,
                                       SubSeq(X, 1, i - 1)).status
                    = "returned" ) =>
                /\ out.status = "raised"
                /\ out.error.type = "ExternalError"
                /\ out.error.by \in resolved \cup {"MolToSmiles"}
                /\ out.value = <<>>

C8_Witness ==
    /\ Finished
    /\ op = "calculate"
    /\ Len(X) >= 2
    /\ ~Malformed(X[1])
    /\ Malformed(X[2])
    /\ out.status = "raised"
    /\ out.error.type = "ExternalError"

VariantFunction(c, rt) ==
    IF c = "AtomPairFingerprint"
    THEN IF rt = "default" THEN "GetAtomPairFingerprint"
         ELSE IF rt = "as_bit_vect"
         THEN "GetHashedAtomPairFingerprintAsBitVect"
         ELSE "GetHashedAtomPairFingerprint"
    ELSE IF rt = "default" THEN "GetTopologicalTorsionFingerprint"
         ELSE IF rt = "as_bit_vect"
         THEN "GetHashedTopologicalTorsionFingerprintAsBitVect"
         ELSE "GetHashedTopologicalTorsionFingerprint"

SharedForwarded(c, args) ==
    IF c = "AtomPairFingerprint"
    THEN /\ args.minLength = given.min_length
         /\ args.maxLength = given.max_length
         /\ args.fromAtoms = given.from_atoms
         /\ args.ignoreAtoms = given.ignore_atoms
         /\ args.atomInvariants = given.atom_invariants
         /\ args.includeChirality = given.include_chirality
         /\ args.use2D = given.use_2D
    ELSE /\ args.targetSize = given.target_size
         /\ args.fromAtoms = given.from_atoms
         /\ args.ignoreAtoms = given.ignore_atoms
         /\ args.atomInvariants = given.atom_invariants
         /\ args.includeChirality = given.include_chirality

C10_VariantArguments ==
    (cls \in {"AtomPairFingerprint", "TopologicalTorsionFingerprint"}
        /\ ReturnedCall) =>
        \A i \in 1..Len(out.value) :
            LET fp == out.value[i]
            IN  /\ fp.fn = VariantFunction(cls, given.result_type)
                /\ SharedForwarded(cls, fp.args)
                /\ ("nBits" \in DOMAIN fp.args) <=>
                      (given.result_type \in {"as_bit_vect", "hashed"})
                /\ ("nBits" \in DOMAIN fp.args) =>
                      fp.args.nBits = given.n_bits
                /\ ("nBitsPerEntry" \in DOMAIN fp.args) <=>
                      (cls = "AtomPairFingerprint"
                          /\ given.result_type = "as_bit_vect")
                /\ ("nBitsPerEntry" \in DOMAIN fp.args) =>
                      fp.args.nBitsPerEntry = given.n_bits_per_entry

C10_Witness ==
    /\ cls = "AtomPairFingerprint"
    /\ ReturnedCall
    /\ given.result_type = "default"
    /\ Len(out.value) >= 1

====
